---- MODULE Spec2Model ----
(***************************************************************************)
(* Model of telepresence's proxy set-up (telepresence/proxy/proxy.py:      *)
(* setup, _dc_exists, ProxyOperation and its five variants) and of the     *)
(* span tracer (telepresence/runner/span.py).                              *)
(*                                                                         *)
(* Spec      : one run of setup(runner, args) followed by the caller's     *)
(*             invocation of the callable that setup returns.              *)
(* SpecSpan  : any sequence of Runner.span (begin) and Span.end calls.     *)
(***************************************************************************)
EXTENDS Integers, Sequences, FiniteSets, TLC

VARIABLES
    args,               \* argparse.Namespace handed to setup
    kube,               \* runner.kubectl: command, cluster_is_openshift, in_local_vm
    pc,                 \* position of the run inside setup / act
    calls,              \* cluster calls issued through runner.check_call, in order
    shown,              \* runner.show lines, in order
    cleanups,           \* runner's cleanup registry (add_cleanup), in order
    operationType,      \* local operationType of setup ("unbound" before assignment)
    intent,             \* ProxyIntent built by setup ("none" before)
    operation,          \* the constructed ProxyOperation: its class, or "none"
    manifests,          \* New.manifests
    remote_info,        \* operation.remote_info (<<>> = None, else <<info>>)
    callLog,            \* prepare / act invocations on the operation, in order
    setupResult,        \* what setup returned ("none" while running or failed)
    actResult,          \* what act returned (<<>> while running or failed, else <<info>>)
    error,              \* message tag of runner.fail / exception ("none" if none)
    delegations,        \* calls of the deployment-manipulation delegates, in order
    spans,              \* SpanTracer: the spans created so far
    current_span,       \* runner.current_span (0 = None)
    now,                \* time()
    output,             \* runner.write lines
    emit_summary        \* Span.emit_summary

proxyVars == <<args, kube, pc, calls, shown, cleanups, operationType, intent,
               operation, manifests, remote_info, callLog, setupResult,
               actResult, error, delegations>>
spanVars == <<spans, current_span, now, output, emit_summary>>
vars == <<args, kube, pc, calls, shown, cleanups, operationType, intent,
          operation, manifests, remote_info, callLog, setupResult,
          actResult, error, delegations, spans, current_span, now, output, emit_summary>>

----------------------------------------------------------------------------
(* Bounds and input domains *)

\* number of candidate ports a request may expose
MaxPorts == 2
\* candidate ports: one privileged, the others not
PortOf(i) == IF i = 1 THEN 80 ELSE 8078 + i
Ports == {PortOf(i) : i \in 1..MaxPorts}

\* combined workload identifiers name[:container], as character sequences
Idents == { <<"a">>, <<"a", ":", "c">>, <<"a", ":">>,
            <<"a", ":", "b", ":", "c">> }

Methods == {"vpn-tcp", "inject-tcp"}
Operations == {"deployment", "new_deployment", "swap_deployment"}
ServiceAccounts == {"", "sa"}
session_id == "sess"
\* run-id correlation tokens a delegate may return
RunIds == {"run-1", "run-2"}

\* PortMapping values: each requested port is local-only or remotely reachable
PortMappings == { e \in [local : SUBSET Ports, remote : SUBSET Ports] :
                    e.local \cap e.remote = {} }

\* PortMapping.remote(): the remotely reachable ports
remote(expose) == expose.remote

\* PortMapping.has_privileged_ports(): some requested port is < 1024
has_privileged_ports(expose) == \E p \in expose.local \cup expose.remote : p < 1024

\* The argument-parsing layer names the selected mode in args.operation; with
\* exactly one mode flag set, it names that flag.
OperationMatchesFlags(a) ==
    LET n == (IF a.deployment THEN 1 ELSE 0) + (IF a.new_deployment THEN 1 ELSE 0)
             + (IF a.swap_deployment THEN 1 ELSE 0)
    IN  n = 1 =>
          /\ a.deployment => a.operation = "deployment"
          /\ a.new_deployment => a.operation = "new_deployment"
          /\ a.swap_deployment => a.operation = "swap_deployment"

\* flags are modelled as "is not None"
ArgsDomain ==
    { a \in [ deployment : BOOLEAN, new_deployment : BOOLEAN,
              swap_deployment : BOOLEAN, operation : Operations,
              deployment_arg : Idents, method : Methods,
              service_account : ServiceAccounts, expose : PortMappings ] :
        OperationMatchesFlags(a) }

KubeDomain == [ command : {"kubectl", "oc"}, cluster_is_openshift : BOOLEAN,
                in_local_vm : BOOLEAN ]

----------------------------------------------------------------------------
(* Pure helpers *)

\* position of the first ":" in s, 0 if none   (":" in name / str.split(":", 1))
FirstColon(s) ==
    IF \E i \in 1..Len(s) : s[i] = ":"
    THEN CHOOSE i \in 1..Len(s) : s[i] = ":" /\ \A j \in 1..(i-1) : s[j] # ":"
    ELSE 0

\* name, container = deployment_arg, "" ; split at the first colon if any
SplitName(s) ==
    IF FirstColon(s) = 0 THEN [name |-> s, container |-> <<>>]
    ELSE [name |-> SubSeq(s, 1, FirstColon(s) - 1),
          container |-> SubSeq(s, FirstColon(s) + 1, Len(s))]

\* a cluster call issued through runner.check_call(runner.kubectl(...))
Call(verb, what, payload, ok) ==
    [verb |-> verb, what |-> what, payload |-> payload, ok |-> ok]

\* the name part that _dc_exists probes: split at the first colon if any
DcName(s) == IF FirstColon(s) = 0 THEN s ELSE SubSeq(s, 1, FirstColon(s) - 1)

\* as DcProbeIssued, testing the command only
DcProbeIssued_commandOnly(k) == k.command = "oc"

\* _dc_exists issues its get only with the oc command on an OpenShift cluster
DcProbeIssued(k) == ~(k.command # "oc" \/ ~k.cluster_is_openshift)

\* the OpenShift guard of setup: privileged ports requested on OpenShift
PrivilegedOnOpenShift_noCluster(expose, k) ==
    has_privileged_ports(expose) /\ k.command = "oc"
PrivilegedOnOpenShift(expose, k) ==
    has_privileged_ports(expose) /\ k.cluster_is_openshift

\* as NeedsCustomNameserver, whatever the capture method
NeedsCustomNameserver_anyMethod(a, k) == k.in_local_vm

\* the DNS-loop guard of setup: vpn-tcp against a cluster in a local VM
NeedsCustomNameserver(a, k) == a.method = "vpn-tcp" /\ k.in_local_vm

\* ... which rejects the in-place mode
RejectedInLocalVm_swap(a) == a.operation = "swap_deployment"
RejectedInLocalVm(a) == a.operation = "deployment"

\* ProxyIntent(name, container, expose, custom_nameserver, service_account)
ProxyIntent(a, ns) ==
    [name |-> SplitName(a.deployment_arg).name,
     container |-> SplitName(a.deployment_arg).container,
     expose |-> a.expose,
     custom_nameserver |-> ns,
     service_account |-> a.service_account]

----------------------------------------------------------------------------
(* Manifests *)

\* get_image_name: the proxy image is chosen by the requested ports
get_image_name(expose) ==
    IF has_privileged_ports(expose) THEN "image-priv" ELSE "image"

\* make_new_proxy_pod_manifest(name, session_id, image, service_account, env)
make_new_proxy_pod_manifest(name, sid, image, sa, env) ==
    [kind |-> "Pod", name |-> name, labels |-> sid, image |-> image,
     serviceAccount |-> sa, env |-> env]

\* make_svc_manifest(name, labels, selector, ports)
make_svc_manifest(name, labels, selector, ports) ==
    [kind |-> "Service", name |-> name, labels |-> labels,
     selector |-> selector, ports |-> ports]

\* make_remote_info_from_pod(pod): the handle is predicted from the manifest
make_remote_info_from_pod(pod) ==
    [name |-> pod.name, deployment_type |-> "pod", run_id |-> "none"]

\* make_k8s_list(manifests): the List envelope
make_k8s_list(ms) == [kind |-> "List", items |-> ms]

\* json.dumps of one manifest: its fields in a fixed order
DumpsManifest(m) ==
    IF m.kind = "Pod"
    THEN <<"Pod", m.name, m.labels, m.image, m.serviceAccount, m.env>>
    ELSE <<"Service", m.name, m.labels, m.selector, m.ports>>

RECURSIVE DumpsItems(_)
DumpsItems(ms) ==
    IF ms = <<>> THEN <<>> ELSE DumpsManifest(Head(ms)) \o DumpsItems(Tail(ms))

\* json.dumps(manifest_list): the envelope's kind, then its items in order
Dumps(doc) == <<doc.kind, "items", Len(doc.items)>> \o DumpsItems(doc.items)

\* json.loads of the items, n documents starting at token i
RECURSIVE LoadsItems(_, _, _)
LoadsItems(toks, i, n) ==
    IF n = 0 THEN <<>>
    ELSE IF toks[i] = "Pod"
         THEN <<[kind |-> "Pod", name |-> toks[i+1], labels |-> toks[i+2],
                 image |-> toks[i+3], serviceAccount |-> toks[i+4],
                 env |-> toks[i+5]]>> \o LoadsItems(toks, i + 6, n - 1)
         ELSE <<[kind |-> "Service", name |-> toks[i+1], labels |-> toks[i+2],
                 selector |-> toks[i+3], ports |-> toks[i+4]]>>
              \o LoadsItems(toks, i + 5, n - 1)

\* json.loads(text)
Loads(toks) == [kind |-> toks[1], items |-> LoadsItems(toks, 4, toks[3])]

\* New.prepare, lines 200-205: the pod environment
PodEnv(it) ==
    IF it.custom_nameserver # "none"
    THEN {<<"TELEPRESENCE_NAMESERVER", it.custom_nameserver>>}
    ELSE {}

\* New.prepare, lines 207-213: the pod manifest
PodManifest(it) ==
    make_new_proxy_pod_manifest(it.name, session_id, get_image_name(it.expose),
                                it.service_account, PodEnv(it))

\* New.prepare, lines 217-225: the service manifest, as needed
SvcManifests_always(it) ==
    <<make_svc_manifest(it.name, session_id, session_id,
                        {<<p, p>> : p \in remote(it.expose)})>>
SvcManifests(it) ==
    IF remote(it.expose) # {}
    THEN <<make_svc_manifest(it.name, session_id, session_id,
                             {<<p, p>> : p \in remote(it.expose)})>>
    ELSE <<>>

\* New.prepare: self.manifests
PrepareManifests(it) == <<PodManifest(it)>> \o SvcManifests(it)

\* New.act, lines 237-238: the text handed to the create call
CreatePayload_podOnly(ms) == Dumps(make_k8s_list(<<Head(ms)>>))
CreatePayload(ms) == Dumps(make_k8s_list(ms))

\* the CleanupRecord of New.act
CleanupRecord == [description |-> "Delete new Pod/Service",
                  action |-> <<"delete", "--ignore-not-found", "--wait=false",
                               "--selector=telepresence=", session_id, "svc,pod">>]

----------------------------------------------------------------------------
(* setup(runner, args) *)

\* raise runner.fail(msg), or an exception leaving the run
Fail(msg) == pc' = "failed" /\ error' = msg

Init ==
    /\ args \in ArgsDomain
    /\ kube \in KubeDomain
    /\ pc = "ports"
    /\ calls = <<>>
    /\ shown = <<>>
    /\ cleanups = <<>>
    /\ operationType = "unbound"
    /\ intent = "none"
    /\ operation = "none"
    /\ manifests = <<>>
    /\ remote_info = <<>>
    /\ callLog = <<>>
    /\ setupResult = "none"
    /\ actResult = <<>>
    /\ error = "none"
    /\ delegations = <<>>
    /\ spans = <<>>
    /\ current_span = 0
    /\ now = 1
    /\ output = <<>>
    /\ emit_summary = FALSE

\* lines 76-81: OpenShift doesn't support running as root
CheckPrivilegedPorts ==
    /\ pc = "ports"
    /\ IF PrivilegedOnOpenShift(args.expose, kube)
       THEN Fail("OpenShift does not support ports <1024.")
       ELSE pc' = "service_account" /\ UNCHANGED error
    /\ UNCHANGED <<args, kube, calls, shown, cleanups, operationType, intent,
                   operation, manifests, remote_info, callLog, setupResult,
                   actResult, delegations>>
    /\ UNCHANGED spanVars

\* as CheckServiceAccount, with the failure of the get not raised
CheckServiceAccount_lenient ==
    /\ pc = "service_account"
    /\ IF args.service_account # ""
       THEN \E ok \in BOOLEAN :
              /\ calls' = Append(calls, Call("get", "serviceaccount",
                                             args.service_account, ok))
              /\ pc' = "deployment" /\ UNCHANGED error
       ELSE pc' = "deployment" /\ UNCHANGED <<calls, error>>
    /\ UNCHANGED <<args, kube, shown, cleanups, operationType, intent,
                   operation, manifests, remote_info, callLog, setupResult,
                   actResult, delegations>>
    /\ UNCHANGED spanVars

\* lines 83-94: check the service account, if present
CheckServiceAccount ==
    /\ pc = "service_account"
    /\ IF args.service_account # ""
       THEN \E ok \in BOOLEAN :
              /\ calls' = Append(calls, Call("get", "serviceaccount",
                                             args.service_account, ok))
              /\ IF ok THEN pc' = "deployment" /\ UNCHANGED error
                 ELSE Fail("Check service account failed")
       ELSE pc' = "deployment" /\ UNCHANGED <<calls, error>>
    /\ UNCHANGED <<args, kube, shown, cleanups, operationType, intent,
                   operation, manifests, remote_info, callLog, setupResult,
                   actResult, delegations>>
    /\ UNCHANGED spanVars

\* as SelectByProbe, with a failed probe not degrading to the plain variant
SelectByProbe_noFallback(dcType, plainType) ==
    IF DcProbeIssued(kube)
    THEN \E found \in BOOLEAN :
           /\ calls' = Append(calls, Call("get", "dc",
                                          DcName(args.deployment_arg), found))
           /\ shown' = shown
           /\ operationType' = dcType
    ELSE /\ operationType' = plainType
         /\ UNCHANGED <<calls, shown>>

\* as SelectByProbe, with the failed probe not reported
SelectByProbe_silent(dcType, plainType) ==
    IF DcProbeIssued(kube)
    THEN \E found \in BOOLEAN :
           /\ calls' = Append(calls, Call("get", "dc",
                                          DcName(args.deployment_arg), found))
           /\ shown' = shown
           /\ operationType' = IF found THEN dcType ELSE plainType
    ELSE /\ operationType' = plainType
         /\ UNCHANGED <<calls, shown>>

\* _dc_exists(runner, args.deployment_arg) and the assignment it decides
\* (lines 46-67 with 99-102 or 110-113)
SelectByProbe(dcType, plainType) ==
    IF DcProbeIssued(kube)
    THEN \E found \in BOOLEAN :
           /\ calls' = Append(calls, Call("get", "dc",
                                          DcName(args.deployment_arg), found))
           /\ shown' = IF found THEN shown
                       ELSE shown \o <<"Failed to find OpenShift deploymentconfig",
                                       "stderr",
                                       "Will try regular Kubernetes Deployment.">>
           /\ operationType' = IF found THEN dcType ELSE plainType
    ELSE /\ operationType' = plainType
         /\ UNCHANGED <<calls, shown>>

\* lines 97-102: if args.deployment is not None
SelectDeployment ==
    /\ pc = "deployment"
    /\ IF args.deployment
       THEN SelectByProbe("ExistingDC", "ExistingDeploy")
       ELSE UNCHANGED <<calls, shown, operationType>>
    /\ pc' = "new_deployment"
    /\ UNCHANGED <<args, kube, cleanups, intent, operation, manifests,
                   remote_info, callLog, setupResult, actResult, error,
                   delegations>>
    /\ UNCHANGED spanVars

\* as SelectNewDeployment, written as an elif of the branch before it
SelectNewDeployment_firstWins ==
    /\ pc = "new_deployment"
    /\ operationType' = IF args.new_deployment /\ operationType = "unbound"
                        THEN "New" ELSE operationType
    /\ pc' = "swap_deployment"
    /\ UNCHANGED <<args, kube, calls, shown, cleanups, intent, operation,
                   manifests, remote_info, callLog, setupResult, actResult,
                   error, delegations>>
    /\ UNCHANGED spanVars

\* lines 104-106: if args.new_deployment is not None
SelectNewDeployment ==
    /\ pc = "new_deployment"
    /\ operationType' = IF args.new_deployment THEN "New" ELSE operationType
    /\ pc' = "swap_deployment"
    /\ UNCHANGED <<args, kube, calls, shown, cleanups, intent, operation,
                   manifests, remote_info, callLog, setupResult, actResult,
                   error, delegations>>
    /\ UNCHANGED spanVars

\* lines 108-113: if args.swap_deployment is not None
SelectSwapDeployment ==
    /\ pc = "swap_deployment"
    /\ IF args.swap_deployment
       THEN SelectByProbe("SwapDC", "SwapDeploy")
       ELSE UNCHANGED <<calls, shown, operationType>>
    /\ pc' = "nameserver"
    /\ UNCHANGED <<args, kube, cleanups, intent, operation, manifests,
                   remote_info, callLog, setupResult, actResult, error,
                   delegations>>
    /\ UNCHANGED spanVars

\* as ResolveIntent, with the operation built and prepared ahead of the guard
ResolveIntent_preparedFirst ==
    /\ pc = "nameserver"
    /\ callLog' = Append(callLog, "prepare")
    /\ IF NeedsCustomNameserver(args, kube)
       THEN IF RejectedInLocalVm(args)
            THEN /\ Fail("vpn-tcp method doesn't work with minikube/minishift")
                 /\ UNCHANGED intent
            ELSE \E found \in BOOLEAN :
                   IF found
                   THEN /\ intent' = ProxyIntent(args, "ns")
                        /\ pc' = "construct"
                        /\ UNCHANGED error
                   ELSE /\ Fail("Failed to find a fallback nameserver")
                        /\ UNCHANGED intent
       ELSE /\ intent' = ProxyIntent(args, "none")
            /\ pc' = "construct"
            /\ UNCHANGED error
    /\ UNCHANGED <<args, kube, calls, shown, cleanups, operationType,
                   operation, manifests, remote_info, setupResult,
                   actResult, delegations>>
    /\ UNCHANGED spanVars

\* lines 115-145: split the identifier, DNS-loop guard, nameserver, intent
ResolveIntent ==
    /\ pc = "nameserver"
    /\ IF NeedsCustomNameserver(args, kube)
       THEN IF RejectedInLocalVm(args)
            THEN /\ Fail("vpn-tcp method doesn't work with minikube/minishift")
                 /\ UNCHANGED intent
            ELSE \E found \in BOOLEAN :
                   IF found
                   THEN /\ intent' = ProxyIntent(args, "ns")
                        /\ pc' = "construct"
                        /\ UNCHANGED error
                   ELSE /\ Fail("Failed to find a fallback nameserver")
                        /\ UNCHANGED intent
       ELSE /\ intent' = ProxyIntent(args, "none")
            /\ pc' = "construct"
            /\ UNCHANGED error
    /\ UNCHANGED <<args, kube, calls, shown, cleanups, operationType,
                   operation, manifests, remote_info, callLog, setupResult,
                   actResult, delegations>>
    /\ UNCHANGED spanVars

\* line 146: operation = operationType(intent)
Construct ==
    /\ pc = "construct"
    /\ IF operationType = "unbound"
       THEN Fail("UnboundLocalError") /\ UNCHANGED operation
       ELSE operation' = operationType /\ pc' = "prepare" /\ UNCHANGED error
    /\ UNCHANGED <<args, kube, calls, shown, cleanups, operationType, intent,
                   manifests, remote_info, callLog, setupResult, actResult,
                   delegations>>
    /\ UNCHANGED spanVars

\* line 148: operation.prepare(runner)  (New.prepare, lines 197-227; the
\* other variants inherit the no-op of ProxyOperation, lines 162-163)
Prepare ==
    /\ pc = "prepare"
    /\ callLog' = Append(callLog, "prepare")
    /\ IF operation = "New"
       THEN /\ manifests' = PrepareManifests(intent)
            /\ remote_info' = <<make_remote_info_from_pod(PodManifest(intent))>>
       ELSE UNCHANGED <<manifests, remote_info>>
    /\ pc' = "return"
    /\ UNCHANGED <<args, kube, calls, shown, cleanups, operationType, intent,
                   operation, setupResult, actResult, error, delegations>>
    /\ UNCHANGED spanVars

\* line 150 as if it read: return operation.act(runner)
Return_callsAct ==
    /\ pc = "return"
    /\ callLog' = Append(callLog, "act")
    /\ setupResult' = "operation.act"
    /\ pc' = "returned"
    /\ UNCHANGED <<args, kube, calls, shown, cleanups, operationType, intent,
                   operation, manifests, remote_info, actResult,
                   error, delegations>>
    /\ UNCHANGED spanVars

\* line 150: return operation.act (the bound method, not its result)
Return ==
    /\ pc = "return"
    /\ setupResult' = "operation.act"
    /\ pc' = "returned"
    /\ UNCHANGED <<args, kube, calls, shown, cleanups, operationType, intent,
                   operation, manifests, remote_info, callLog, actResult,
                   error, delegations>>
    /\ UNCHANGED spanVars

----------------------------------------------------------------------------
(* operation.act(runner), invoked by the caller of setup *)

\* the caller invokes the callable that setup returned
CallAct ==
    /\ pc = "returned"
    /\ callLog' = Append(callLog, "act")
    /\ pc' = IF operation = "New" THEN "create" ELSE "legacy_op"
    /\ UNCHANGED <<args, kube, calls, shown, cleanups, operationType, intent,
                   operation, manifests, remote_info, setupResult, actResult,
                   error, delegations>>
    /\ UNCHANGED spanVars

\* New.act, lines 251-263: cleanup registration once create has returned
RegisterCleanup_none(reg) == reg
RegisterCleanup(reg) == Append(reg, CleanupRecord)

\* New.act, lines 244-249: a failed create registers nothing
CreateFailedCleanups_registered(reg) == Append(reg, CleanupRecord)
CreateFailedCleanups(reg) == reg

\* New.act, lines 232-249: one create call with the serialized list
ActCreate ==
    /\ pc = "create"
    /\ shown' = Append(shown, "Starting network proxy to cluster using new Pod")
    /\ \E ok \in BOOLEAN :
         /\ calls' = Append(calls, Call("create", "-f -",
                                        CreatePayload(manifests), ok))
         /\ IF ok
            THEN pc' = "add_cleanup" /\ UNCHANGED <<error, cleanups>>
            ELSE /\ Fail("Failed to create Pod/Service")
                 /\ cleanups' = CreateFailedCleanups(cleanups)
    /\ UNCHANGED <<args, kube, operationType, intent, operation, manifests,
                   remote_info, callLog, setupResult, actResult, delegations>>
    /\ UNCHANGED spanVars

\* New.act, lines 251-263: runner.add_cleanup("Delete new Pod/Service", clean_up)
ActAddCleanup ==
    /\ pc = "add_cleanup"
    /\ cleanups' = RegisterCleanup(cleanups)
    /\ pc' = "wait"
    /\ UNCHANGED <<args, kube, calls, shown, operationType, intent, operation,
                   manifests, remote_info, callLog, setupResult, actResult,
                   error, delegations>>
    /\ UNCHANGED spanVars

\* New.act, lines 265-267: wait_for_pod(runner, self.remote_info), then return
ActWait ==
    /\ pc = "wait"
    /\ \E ready \in BOOLEAN :
         IF ready
         THEN /\ actResult' = remote_info
              /\ pc' = "done"
              /\ UNCHANGED <<error, cleanups>>
         ELSE /\ Fail("Pod isn't starting or can't be found")
              /\ UNCHANGED <<actResult, cleanups>>
    /\ UNCHANGED <<args, kube, calls, shown, operationType, intent, operation,
                   manifests, remote_info, callLog, setupResult, delegations>>
    /\ UNCHANGED spanVars

\* as LegacyDeploymentArg, with the container dropped
LegacyDeploymentArg_nameOnly(it) == it.name

\* ProxyOperation._legacy, lines 174-176: the combined identifier
LegacyDeploymentArg(it) ==
    IF it.container # <<>> THEN it.name \o <<":">> \o it.container ELSE it.name

\* lines 270-291: the delegate of each variant
LegacyOp(kind) ==
    CASE kind = "ExistingDeploy" -> "existing_deployment"
      [] kind = "ExistingDC" -> "existing_deployment_openshift"
      [] kind = "SwapDeploy" -> "supplant_deployment"
      [] kind = "SwapDC" -> "swap_deployment_openshift"

\* as DeploymentType, with the DC variants tagged like the Deploy ones
DeploymentType_deployment(kind) == "deployment"

\* lines 270-291: the resource kind of each variant
DeploymentType(kind) ==
    CASE kind = "ExistingDeploy" -> "deployment"
      [] kind = "ExistingDC" -> "deploymentconfig"
      [] kind = "SwapDeploy" -> "deployment"
      [] kind = "SwapDC" -> "deploymentconfig"

\* ProxyOperation._legacy, lines 186-191: the handle is resolved from what the
\* delegate returned, tagged with the variant's resource kind
LegacyRemoteInfo(kind, del) ==
    [name |-> del.tel_deployment,
     deployment_type |-> DeploymentType(kind),
     run_id |-> del.run_id]

\* ProxyOperation._legacy, lines 174-184: the delegate mutates the workload
ActLegacyOp ==
    /\ pc = "legacy_op"
    /\ \E ok \in BOOLEAN, rid \in RunIds :
         /\ delegations' = Append(delegations,
               [op |-> LegacyOp(operation),
                deployment_arg |-> LegacyDeploymentArg(intent),
                expose |-> intent.expose,
                custom_nameserver |-> intent.custom_nameserver,
                service_account |-> intent.service_account,
                ok |-> ok,
                tel_deployment |-> <<"tel_deployment">>,
                run_id |-> rid])
         /\ IF ok THEN pc' = "legacy_info" /\ UNCHANGED error
            ELSE Fail("delegate failed")
    /\ UNCHANGED <<args, kube, calls, shown, cleanups, operationType, intent,
                   operation, manifests, remote_info, callLog, setupResult,
                   actResult>>
    /\ UNCHANGED spanVars

\* ProxyOperation._legacy, lines 186-193: get_remote_info(..., run_id=run_id)
ActLegacyInfo ==
    /\ pc = "legacy_info"
    /\ \E found \in BOOLEAN :
         IF found
         THEN /\ actResult' = <<LegacyRemoteInfo(operation,
                                                 delegations[Len(delegations)])>>
              /\ pc' = "done"
              /\ UNCHANGED error
         ELSE Fail("Telepresence pod not found") /\ UNCHANGED actResult
    /\ UNCHANGED <<args, kube, calls, shown, cleanups, operationType, intent,
                   operation, manifests, remote_info, callLog, setupResult,
                   delegations>>
    /\ UNCHANGED spanVars

Next ==
    \/ CheckPrivilegedPorts
    \/ CheckServiceAccount
    \/ SelectDeployment
    \/ SelectNewDeployment
    \/ SelectSwapDeployment
    \/ ResolveIntent
    \/ Construct
    \/ Prepare
    \/ Return
    \/ CallAct
    \/ ActCreate
    \/ ActAddCleanup
    \/ ActWait
    \/ ActLegacyOp
    \/ ActLegacyInfo

Spec == Init /\ [][Next]_vars

----------------------------------------------------------------------------
(* Properties of setup and New *)

MsgPorts == "OpenShift does not support ports <1024."
MsgServiceAccount == "Check service account failed"
MsgLocalVm == "vpn-tcp method doesn't work with minikube/minishift"
MsgNameserver == "Failed to find a fallback nameserver"
MsgCreate == "Failed to create Pod/Service"
MsgTimeout == "Pod isn't starting or can't be found"

IsCreate(c) == c.verb = "create"
IsMutation(c) == c.verb \in {"create", "delete"}
CreateCalls == SelectSeq(calls, IsCreate)
CreateSucceeded == \E i \in 1..Len(calls) : calls[i].verb = "create" /\ calls[i].ok
ActCalled == \E i \in 1..Len(callLog) : callLog[i] = "act"
PrepareCalled == \E i \in 1..Len(callLog) : callLog[i] = "prepare"
NewActFinished == operation = "New" /\ ActCalled /\ pc \in {"done", "failed"}
CleanupRegistered == \E i \in 1..Len(cleanups) : cleanups[i] = CleanupRecord

\* C1: when a run of New.act has finished, by returning or by failing, a
\* CleanupRecord is registered if and only if the create call reported
\* success; a failed create leaves the registry empty.
C1_CleanupIffCreated ==
    NewActFinished =>
        /\ CleanupRegistered <=> CreateSucceeded
        /\ error = MsgCreate => cleanups = <<>>

\* a run of New.act that ended on a failed create with nothing registered
C1_Witness ==
    NewActFinished /\ error = MsgCreate /\ ~CreateSucceeded /\ cleanups = <<>>

\* C2: the CleanupRecord is registered before the readiness wait begins and is
\* still registered when the wait's timeout is surfaced.
C2_CleanupSurvivesTimeout ==
    (pc = "wait" \/ error = MsgTimeout) =>
        CreateSucceeded /\ cleanups = <<CleanupRecord>>

\* a run of New.act whose create succeeded and whose wait timed out
C2_Witness ==
    pc = "failed" /\ error = MsgTimeout /\ CreateSucceeded /\ CleanupRegistered

\* C3: with a privileged port requested on an OpenShift cluster, setup fails
\* and no cluster call is ever issued, whatever the other inputs are.
C3_PrivilegedOpenShiftFailsFirst ==
    (has_privileged_ports(args.expose) /\ kube.cluster_is_openshift) =>
        /\ calls = <<>>
        /\ pc \in {"ports", "failed"}
        /\ pc = "failed" => error = MsgPorts
        /\ setupResult = "none"

\* setup failed on the port guard of a request that names a service account
\* and sets the target-existing flag, with the oc command
C3_Witness ==
    /\ pc = "failed" /\ error = MsgPorts /\ calls = <<>>
    /\ args.service_account # "" /\ args.deployment /\ kube.command = "oc"

ExactlyOneFlag ==
    \/ args.deployment /\ ~args.new_deployment /\ ~args.swap_deployment
    \/ ~args.deployment /\ args.new_deployment /\ ~args.swap_deployment
    \/ ~args.deployment /\ ~args.new_deployment /\ args.swap_deployment

\* the selection of lines 96-113 has been made
SelectionDone ==
    /\ pc \notin {"ports", "service_account", "deployment", "new_deployment",
                  "swap_deployment"}
    /\ ~(pc = "failed" /\ error \in {MsgPorts, MsgServiceAccount})

\* the result of the dcExists probe: true only if the get was issued and succeeded
DcProbeTrue == \E i \in 1..Len(calls) : calls[i].what = "dc" /\ calls[i].ok

\* the decision table of the three request shapes and the probe result
DecisionTable ==
    IF args.deployment THEN (IF DcProbeTrue THEN "ExistingDC" ELSE "ExistingDeploy")
    ELSE IF args.new_deployment THEN "New"
    ELSE (IF DcProbeTrue THEN "SwapDC" ELSE "SwapDeploy")

\* C4: with exactly one mode flag set, setup selects the one OperationKind of
\* the decision table, for every result of the dcExists probe, and constructs
\* no other.
C4_SelectionMatchesTable ==
    (ExactlyOneFlag /\ SelectionDone) =>
        /\ operationType = DecisionTable
        /\ operation \in {"none", DecisionTable}

\* a swap-existing request whose probe succeeded and constructed SwapDC
C4_Witness ==
    /\ ExactlyOneFlag /\ args.swap_deployment /\ DcProbeTrue
    /\ operation = "SwapDC"

\* C5: under vpn-tcp on a local-VM cluster no ExistingDeploy/ExistingDC
\* operation is ever constructed, and a run in the target-existing mode never
\* gets past the guard: it fails.
C5_NoExistingUnderVpnLocalVm ==
    (args.method = "vpn-tcp" /\ kube.in_local_vm) =>
        /\ operation \notin {"ExistingDeploy", "ExistingDC"}
        /\ (args.deployment /\ ~args.new_deployment /\ ~args.swap_deployment) =>
             /\ pc \in {"ports", "service_account", "deployment",
                        "new_deployment", "swap_deployment", "nameserver",
                        "failed"}
             /\ setupResult = "none"

\* setup selected an Existing variant and failed on the local-VM guard
C5_Witness ==
    /\ args.method = "vpn-tcp" /\ kube.in_local_vm
    /\ operationType \in {"ExistingDeploy", "ExistingDC"}
    /\ pc = "failed" /\ error = MsgLocalVm /\ operation = "none"

\* C6 as stated: a successful setup has called prepare and then act, once
\* each, and returns the RemoteInfo that act produced.
C6_Original ==
    setupResult # "none" =>
        /\ callLog = <<"prepare", "act">>
        /\ actResult # <<>>
        /\ setupResult = "RemoteInfo"

\* C6, amended: a successful setup has called prepare exactly once on the
\* selected variant and has not called act; it returns the operation's bound
\* act, so at its return no create call, delegate call or cleanup
\* registration has happened.  act runs only when the caller invokes what
\* setup returned, after prepare, at most once, and the RemoteInfo is the
\* result of that call.
C6_SetupReturnsAct ==
    /\ setupResult # "none" =>
         /\ setupResult = "operation.act"
         /\ operation = operationType
         /\ callLog \in {<<"prepare">>, <<"prepare", "act">>}
    /\ pc = "returned" =>
         /\ setupResult # "none"
         /\ callLog = <<"prepare">>
         /\ CreateCalls = <<>> /\ delegations = <<>> /\ cleanups = <<>>
         /\ actResult = <<>>
    /\ actResult # <<>> =>
         /\ callLog = <<"prepare", "act">>
         /\ setupResult = "operation.act"

\* setup has returned the callable of a New operation, not yet invoked
C6_Witness ==
    /\ pc = "returned" /\ setupResult = "operation.act"
    /\ operation = "New" /\ callLog = <<"prepare">> /\ manifests # <<>>

ValidationFailed ==
    pc = "failed" /\ error \in {MsgPorts, MsgServiceAccount, MsgLocalVm, MsgNameserver}

\* C7: a run of setup that fails a validation has issued no create or delete
\* call, registered no CleanupRecord, and called neither prepare nor act; no
\* operation was constructed and no delegate was invoked.
C7_ValidationFailsBeforeMutation ==
    ValidationFailed =>
        /\ SelectSeq(calls, IsMutation) = <<>>
        /\ cleanups = <<>>
        /\ callLog = <<>>
        /\ operation = "none"
        /\ delegations = <<>>
        /\ manifests = <<>>

\* setup failed on the last validation, the nameserver lookup, after a
\* service-account check, with an operation kind already selected
C7_Witness ==
    /\ pc = "failed" /\ error = MsgNameserver
    /\ operationType # "unbound" /\ calls # <<>>

HasService == \E i \in 1..Len(manifests) : manifests[i].kind = "Service"

\* C8: New.prepare yields at least one manifest, the first being the pod, and
\* a service manifest is present iff some requested port is remotely
\* reachable; a request with only local-only ports yields exactly one.
C8_PrepareManifests ==
    (operation = "New" /\ PrepareCalled) =>
        /\ Len(manifests) >= 1
        /\ manifests[1].kind = "Pod"
        /\ \A i \in 2..Len(manifests) : manifests[i].kind = "Service"
        /\ HasService <=> remote(args.expose) # {}
        /\ remote(args.expose) = {} => Len(manifests) = 1
        /\ Len(manifests) <= 2

\* New.prepare ran on a request with local-only ports only: just the pod
C8_Witness ==
    /\ operation = "New" /\ PrepareCalled
    /\ args.expose.local # {} /\ args.expose.remote = {}
    /\ Len(manifests) = 1 /\ manifests[1].kind = "Pod"

\* C9: an invocation of New.act issues exactly one create call, whose payload
\* parses to a List envelope with exactly the manifests of prepare as items,
\* in order; no other create call is made.
C9_SingleCreateOfList ==
    /\ Len(CreateCalls) <= 1
    /\ CreateCalls # <<>> => operation = "New" /\ ActCalled
    /\ (operation = "New" /\ ActCalled /\ pc # "create") =>
         /\ Len(CreateCalls) = 1
         /\ Loads(CreateCalls[1].payload).kind = "List"
         /\ Loads(CreateCalls[1].payload).items = manifests

\* New.act returned after submitting pod and service in one call
C9_Witness ==
    /\ operation = "New" /\ pc = "done" /\ Len(manifests) = 2
    /\ Len(CreateCalls) = 1
    /\ Len(Loads(CreateCalls[1].payload).items) = 2

----------------------------------------------------------------------------
(* The span tracer: Runner.span and Span *)

\* number of spans a run creates
MaxSpans == 3
\* number of time() readings of a run
MaxTime == 7

\* Span.__init__: the new span, linked to its parent (0 = None)
NewSpan(sp, parent, verbose) ==
    [tag |-> Len(sp) + 1,
     parent |-> parent,
     children |-> <<>>,
     depth |-> IF parent # 0 THEN sp[parent].depth + 1 ELSE 0,
     start_time |-> 0,
     end_time |-> 0,
     verbose |-> verbose]

\* Span.__init__, lines 37-38: self.parent.children.append(self)
LinkChild(sp, parent) ==
    IF parent # 0
    THEN [sp EXCEPT ![parent].children = Append(@, Len(sp) + 1)]
    ELSE sp

\* Span.summarize: one line per span, parent before children, in order
RECURSIVE summarize(_, _)
RECURSIVE summarizeChildren(_, _)
\* as summarize, with the indent of one space per level
summarize_singleIndent(sp, s) ==
    <<[line |-> "summary",
       ended |-> sp[s].end_time # 0,
       spent |-> IF sp[s].end_time # 0 THEN sp[s].end_time - sp[s].start_time ELSE 0,
       indent |-> sp[s].depth,
       tag |-> sp[s].tag]>>
    \o summarizeChildren(sp, sp[s].children)
summarize(sp, s) ==
    <<[line |-> "summary",
       ended |-> sp[s].end_time # 0,
       spent |-> IF sp[s].end_time # 0 THEN sp[s].end_time - sp[s].start_time ELSE 0,
       indent |-> sp[s].depth * 2,
       tag |-> sp[s].tag]>>
    \o summarizeChildren(sp, sp[s].children)
summarizeChildren(sp, ch) ==
    IF ch = <<>> THEN <<>>
    ELSE summarize(sp, Head(ch)) \o summarizeChildren(sp, Tail(ch))

\* as ActiveAfterEnd, without the test that self is the active span
ActiveAfterEnd_unconditional(sp, cur, s) == sp[s].parent

\* Span.end, lines 55-56: the active pointer after self ended
ActiveAfterEnd(sp, cur, s) == IF cur = s THEN sp[s].parent ELSE cur

InitSpan ==
    /\ args = CHOOSE a \in ArgsDomain : TRUE
    /\ kube = CHOOSE k \in KubeDomain : TRUE
    /\ pc = "idle"
    /\ calls = <<>>
    /\ shown = <<>>
    /\ cleanups = <<>>
    /\ operationType = "unbound"
    /\ intent = "none"
    /\ operation = "none"
    /\ manifests = <<>>
    /\ remote_info = <<>>
    /\ callLog = <<>>
    /\ setupResult = "none"
    /\ actResult = <<>>
    /\ error = "none"
    /\ delegations = <<>>
    /\ spans = <<>>
    /\ current_span = 0
    /\ now = 1
    /\ output = <<>>
    /\ emit_summary \in BOOLEAN

\* Runner.span: a span is begun under the active span ...
SpanParent(cur) == cur

\* ... and becomes the active span
ActiveAfterBegin(sp) == Len(sp) + 1

\* Span(runner, tag, parent, verbose) followed by begin(), as Runner.span
\* does for every span  (Span.__init__ and Span.begin, lines 26-49)
RunnerSpan ==
    /\ Len(spans) < MaxSpans
    /\ now < MaxTime
    /\ \E verbose \in BOOLEAN :
         /\ spans' = Append(LinkChild(spans, SpanParent(current_span)),
                            [NewSpan(spans, SpanParent(current_span), verbose)
                               EXCEPT !.start_time = now])
         /\ output' = IF verbose
                      THEN Append(output, [line |-> "BEGIN SPAN", tag |-> Len(spans) + 1])
                      ELSE output
    /\ current_span' = ActiveAfterBegin(spans)
    /\ now' = now + 1
    /\ UNCHANGED emit_summary
    /\ UNCHANGED proxyVars

\* Span.end, lines 51-62, on any span created so far
SpanEnd ==
    /\ now < MaxTime
    /\ \E s \in 1..Len(spans) :
         LET ended == [spans EXCEPT ![s].end_time = now]
             spent == now - spans[s].start_time
         IN  /\ spans' = ended
             /\ current_span' = ActiveAfterEnd(spans, current_span, s)
             /\ output' =
                  (IF spans[s].verbose
                   THEN Append(output, [line |-> "END SPAN", tag |-> s, spent |-> spent])
                   ELSE output)
                  \o (IF spans[s].parent = 0 /\ emit_summary
                      THEN <<[line |-> "SPAN SUMMARY:"]>> \o summarize(ended, s)
                      ELSE <<>>)
    /\ now' = now + 1
    /\ UNCHANGED emit_summary
    /\ UNCHANGED proxyVars

NextSpan == RunnerSpan \/ SpanEnd

SpecSpan == InitSpan /\ [][NextSpan]_vars

OpenSpans == {s \in 1..Len(spans) : spans[s].end_time = 0}

\* the most recently begun span that has not ended (0 if there is none)
MostRecentOpen ==
    IF OpenSpans = {} THEN 0
    ELSE CHOOSE s \in OpenSpans :
           \A t \in OpenSpans : spans[t].start_time <= spans[s].start_time

\* C10: after any sequence of begins and ends the active pointer refers to
\* the most recently begun span that has not yet ended, and never to a span
\* whose end has been recorded.
C10_ActiveIsMostRecentOpen ==
    /\ current_span = MostRecentOpen
    /\ current_span # 0 => spans[current_span].end_time = 0

\* the step is a call of end on span s: s got the current reading of time()
\* as its end_time (every earlier timestamp is smaller than now)
IsEndOf(s) ==
    /\ Len(spans') = Len(spans)
    /\ now' = now + 1
    /\ s \in 1..Len(spans)
    /\ spans'[s].end_time = now

\* C11: end on the active span moves the active pointer to that span's parent
\* (none for the root); end on any other span leaves the pointer unchanged.
C11_EndRestoresParent ==
    [][\A s \in 1..Len(spans) :
          IsEndOf(s) =>
             /\ current_span = s => current_span' = spans[s].parent
             /\ current_span # s => current_span' = current_span]_vars

\* a parent was ended while its child was the active span, and the child
\* still is
C11_Witness ==
    /\ Len(spans) >= 2
    /\ spans[1].end_time # 0 /\ spans[2].end_time = 0
    /\ spans[2].parent = 1 /\ current_span = 2

\* C12: a second end on a span is rejected, so an end_time, once set, is
\* never set again.
C12_EndTimeSetOnce ==
    [][\A s \in 1..Len(spans) :
          spans[s].end_time # 0 => spans'[s].end_time = spans[s].end_time]_vars

\* the lines written by the step
NewLines == SubSeq(output', Len(output) + 1, Len(output'))

\* s is r or was begun under r, following the parent links
RECURSIVE IsUnder(_, _, _)
IsUnder(sp, s, r) ==
    IF s = r THEN TRUE
    ELSE IF sp[s].parent = 0 THEN FALSE
    ELSE IsUnder(sp, sp[s].parent, r)

\* the number of ancestors of s, following the parent links
RECURSIVE Ancestors(_, _)
Ancestors(sp, s) == IF sp[s].parent = 0 THEN 0 ELSE 1 + Ancestors(sp, sp[s].parent)

\* the spans of the tree rooted at r
TreeOf(r) == {s \in 1..Len(spans) : IsUnder(spans, s, r)}

IsSummaryLine(l) == l.line \in {"SPAN SUMMARY:", "summary"}

\* the lines of the step once the END SPAN line of a verbose span is dropped
AfterEndLine(s) == IF spans[s].verbose THEN Tail(NewLines) ELSE NewLines

\* the summary written by the end of root s: the heading, then one line per
\* span of the tree
IsSummaryOf(s, block) ==
    /\ Len(block) = Cardinality(TreeOf(s)) + 1
    /\ block[1].line = "SPAN SUMMARY:"
    /\ \A i \in 2..Len(block) :
         /\ block[i].line = "summary"
         /\ block[i].tag \in TreeOf(s)
         /\ block[i].indent = 2 * Ancestors(spans, block[i].tag)
         /\ block[i].ended <=> spans'[block[i].tag].end_time # 0
         /\ block[i].ended =>
              block[i].spent = spans'[block[i].tag].end_time
                               - spans'[block[i].tag].start_time
         /\ \A j \in 2..Len(block) :
              /\ (i # j => block[i].tag # block[j].tag)
              /\ (spans[block[j].tag].parent = block[i].tag => i < j)

\* C13: with the flag set, the end of a root with N spans begun under it
\* writes the summary: N+1 lines, one per span of the tree, parents before
\* their children, each with an indent of 2 * depth and the elapsed time or
\* the placeholder of a span that has not ended.  The end of a non-root span,
\* the end of a root with the flag unset, and a begin write no summary.
C13_SummaryOnRootEnd ==
    [][/\ \A s \in 1..Len(spans) :
            (IsEndOf(s) /\ spans[s].parent = 0 /\ emit_summary) =>
                IsSummaryOf(s, AfterEndLine(s))
       /\ (~\E s \in 1..Len(spans) :
              IsEndOf(s) /\ spans[s].parent = 0 /\ emit_summary) =>
            \A i \in 1..Len(NewLines) : ~IsSummaryLine(NewLines[i])]_vars

\* a root was ended with a child and a grandchild still open: the summary
\* has a line at indent 4 and a line with the placeholder
C13_Witness ==
    /\ emit_summary
    /\ \E i \in 1..Len(output) :
         output[i].line = "summary" /\ output[i].indent = 4 /\ ~output[i].ended
    /\ \E i \in 1..Len(output) :
         output[i].line = "summary" /\ output[i].indent = 0 /\ output[i].ended

----------------------------------------------------------------------------
(* Ordering, probing and selection in setup *)

IsDcCall(c) == c.what = "dc"
DcCalls == SelectSeq(calls, IsDcCall)

\* the number of mode flags that make setup call _dc_exists
ProbingFlags ==
    (IF args.deployment THEN 1 ELSE 0) + (IF args.swap_deployment THEN 1 ELSE 0)

\* the service-account check has been made and passed, when one is named
ServiceAccountPassed ==
    args.service_account # "" =>
        /\ calls # <<>>
        /\ calls[1].what = "serviceaccount" /\ calls[1].ok

\* C14 as stated: all three validations are completed before the dcExists
\* probe is issued and before a kind is selected, and a run that fails any of
\* the three has issued no dcExists probe.
C14_Original ==
    /\ (DcCalls # <<>> \/ operationType # "unbound") =>
          /\ ~(has_privileged_ports(args.expose) /\ kube.cluster_is_openshift)
          /\ ServiceAccountPassed
          /\ ~(args.method = "vpn-tcp" /\ kube.in_local_vm
               /\ args.operation = "deployment")
    /\ error \in {MsgPorts, MsgServiceAccount, MsgLocalVm} => DcCalls = <<>>

\* C14, amended: the privileged-port and service-account validations are
\* completed before the dcExists probe is issued and before a kind is
\* selected, and a run that fails either has issued no dcExists probe and
\* selected no kind.  The vpn-tcp/local-VM/target-existing validation is made
\* after the selection, hence after every dcExists probe of the run, and
\* before the operation is constructed: a run that fails it has selected its
\* kind and issued its probes, and has constructed no operation.
C14_ValidationOrder ==
    /\ (DcCalls # <<>> \/ operationType # "unbound") =>
          /\ ~(has_privileged_ports(args.expose) /\ kube.cluster_is_openshift)
          /\ ServiceAccountPassed
    /\ error \in {MsgPorts, MsgServiceAccount} =>
          DcCalls = <<>> /\ operationType = "unbound"
    /\ error = MsgLocalVm =>
          /\ operation = "none" /\ callLog = <<>>
          /\ (args.deployment \/ args.new_deployment \/ args.swap_deployment)
                => operationType # "unbound"
          /\ Len(DcCalls) = IF kube.command = "oc" /\ kube.cluster_is_openshift
                             THEN ProbingFlags ELSE 0

\* setup failed on the local-VM guard after its dcExists probe was issued
C14_Witness ==
    /\ pc = "failed" /\ error = MsgLocalVm
    /\ DcCalls # <<>> /\ operationType = "ExistingDC"

IsProbeFailureLog(l) == l = "Failed to find OpenShift deploymentconfig"

\* the step issues a dcExists get that fails
ProbeFailsInStep ==
    /\ Len(calls') = Len(calls) + 1
    /\ calls'[Len(calls')].what = "dc"
    /\ ~calls'[Len(calls')].ok

\* C15: a failed dcExists get never fails setup: the run goes on to the next
\* statement with the plain-Deployment variant selected (ExistingDeploy for
\* target-existing, SwapDeploy for swap-existing), and the cause is logged.
C15_ProbeFailureDegrades ==
    [][ProbeFailsInStep =>
          /\ pc' # "failed" /\ error' = "none"
          /\ pc = "deployment" => pc' = "new_deployment" /\ operationType' = "ExistingDeploy"
          /\ pc = "swap_deployment" => pc' = "nameserver" /\ operationType' = "SwapDeploy"
          /\ Len(shown') = Len(shown) + 3
          /\ IsProbeFailureLog(shown'[Len(shown) + 1])
          /\ shown'[Len(shown) + 3] = "Will try regular Kubernetes Deployment."]_vars

\* setup returned an ExistingDeploy operation after its probe failed
C15_Witness ==
    /\ setupResult = "operation.act" /\ operation = "ExistingDeploy"
    /\ DcCalls # <<>> /\ ~DcCalls[1].ok
    /\ SelectSeq(shown, IsProbeFailureLog) # <<>>

\* C16: a dc get is issued only with the oc command on a cluster that reports
\* OpenShift, and only for a request with the target-existing or the
\* swap-existing flag; otherwise none is issued and no DC variant is ever
\* selected.  A create-new request alone issues no dc get.
C16_ProbeOnlyOnOpenShiftOc ==
    /\ DcCalls # <<>> =>
          /\ kube.command = "oc" /\ kube.cluster_is_openshift
          /\ args.deployment \/ args.swap_deployment
    /\ operationType \in {"ExistingDC", "SwapDC"} =>
          /\ kube.command = "oc" /\ kube.cluster_is_openshift
          /\ DcProbeTrue
    /\ operation \in {"ExistingDC", "SwapDC"} => operationType = operation
    /\ (~args.deployment /\ ~args.swap_deployment) => DcCalls = <<>>

\* a target-existing request with oc against a cluster that is not OpenShift:
\* ExistingDeploy constructed without any dc get
C16_Witness ==
    /\ kube.command = "oc" /\ ~kube.cluster_is_openshift
    /\ args.deployment /\ operation = "ExistingDeploy" /\ DcCalls = <<>>

----------------------------------------------------------------------------
(* Intent, delegates and identifiers *)

\* setup has built its ProxyIntent (line 139)
IntentBuilt ==
    \/ pc \in {"construct", "prepare", "return", "returned", "create",
               "add_cleanup", "wait", "legacy_op", "legacy_info", "done"}
    \/ pc = "failed" /\ error \notin {MsgPorts, MsgServiceAccount, MsgLocalVm,
                                      MsgNameserver}

VpnInLocalVm == args.method = "vpn-tcp" /\ kube.in_local_vm

\* C17: the intent carries a custom nameserver only under vpn-tcp on a
\* local-VM cluster, and the lookup is attempted only then; a failed lookup
\* fails setup with no operation constructed.  The pod environment of
\* New.prepare has the nameserver override exactly when the intent carries a
\* custom nameserver.
C17_CustomNameserver ==
    /\ IntentBuilt =>
          /\ intent.custom_nameserver # "none" => VpnInLocalVm
          /\ intent.custom_nameserver \in {"none", "ns"}
    /\ error = MsgNameserver =>
          /\ VpnInLocalVm
          /\ pc = "failed" /\ operation = "none" /\ setupResult = "none"
          /\ callLog = <<>>
    /\ (operation = "New" /\ PrepareCalled) =>
          /\ (\E e \in manifests[1].env : e[1] = "TELEPRESENCE_NAMESERVER")
                <=> intent.custom_nameserver # "none"
          /\ \A e \in manifests[1].env :
                e = <<"TELEPRESENCE_NAMESERVER", intent.custom_nameserver>>

\* New.prepare ran with a custom nameserver: the pod carries the override
C17_Witness ==
    /\ operation = "New" /\ PrepareCalled /\ VpnInLocalVm
    /\ manifests[1].env = {<<"TELEPRESENCE_NAMESERVER", "ns">>}

NonNew == {"ExistingDeploy", "ExistingDC", "SwapDeploy", "SwapDC"}

\* the dcExists probe that decided the selection returned true
LastDcProbeTrue == DcCalls # <<>> /\ DcCalls[Len(DcCalls)].ok

\* C18: for the four non-New variants act calls exactly one delegate, then
\* resolves the RemoteInfo with the run-id that delegate returned and with the
\* kind "deployment" for ExistingDeploy and SwapDeploy, "deploymentconfig" for
\* ExistingDC and SwapDC; so the kind is "deploymentconfig" iff the dcExists
\* probe that decided the selection returned true.
C18_LegacyRemoteInfo ==
    /\ Len(delegations) <= 1
    /\ delegations # <<>> =>
          /\ operation \in NonNew /\ ActCalled
          /\ delegations[1].op =
               (CASE operation = "ExistingDeploy" -> "existing_deployment"
                  [] operation = "ExistingDC" -> "existing_deployment_openshift"
                  [] operation = "SwapDeploy" -> "supplant_deployment"
                  [] operation = "SwapDC" -> "swap_deployment_openshift")
    /\ (operation \in NonNew /\ actResult # <<>>) =>
          /\ Len(delegations) = 1 /\ delegations[1].ok
          /\ actResult[1].run_id = delegations[1].run_id
          /\ actResult[1].name = delegations[1].tel_deployment
          /\ actResult[1].deployment_type =
               (IF operation \in {"ExistingDC", "SwapDC"}
                THEN "deploymentconfig" ELSE "deployment")
          /\ actResult[1].deployment_type = "deploymentconfig" <=> LastDcProbeTrue

\* the act of a SwapDC operation returned a deploymentconfig handle carrying
\* the delegate's run-id
C18_Witness ==
    /\ operation = "SwapDC" /\ actResult # <<>>
    /\ actResult[1].deployment_type = "deploymentconfig"
    /\ delegations # <<>> /\ delegations[1].run_id = "run-2"
    /\ actResult[1].run_id = "run-2"

\* the kind of the last matching branch, in the order target-existing,
\* create-new, swap-existing
LastMatching ==
    IF args.swap_deployment
    THEN (IF LastDcProbeTrue THEN "SwapDC" ELSE "SwapDeploy")
    ELSE IF args.new_deployment THEN "New"
    ELSE IF args.deployment
    THEN (IF LastDcProbeTrue THEN "ExistingDC" ELSE "ExistingDeploy")
    ELSE "unbound"

\* C19: whatever mode flags are set, setup selects the kind of the last
\* matching branch and constructs at most that one operation, after one call
\* of dcExists for each of target-existing and swap-existing that is set (one
\* dc get each with oc on OpenShift); with no flag set nothing is constructed
\* and setup does not return.
C19_LastBranchWins ==
    /\ SelectionDone =>
          /\ operationType = LastMatching
          /\ Len(DcCalls) = IF kube.command = "oc" /\ kube.cluster_is_openshift
                            THEN ProbingFlags ELSE 0
    /\ operation # "none" => SelectionDone /\ operation = LastMatching
    /\ setupResult # "none" => operation = LastMatching /\ operation # "none"
    /\ (~args.deployment /\ ~args.new_deployment /\ ~args.swap_deployment) =>
          /\ operation = "none" /\ setupResult = "none" /\ operationType = "unbound"
          /\ pc \in {"ports", "service_account", "deployment", "new_deployment",
                     "swap_deployment", "nameserver", "construct", "failed"}

\* all three flags set: setup returned a SwapDeploy operation after two
\* probes, the first of which had found a DeploymentConfig
C19_Witness ==
    /\ args.deployment /\ args.new_deployment /\ args.swap_deployment
    /\ setupResult = "operation.act" /\ operation = "SwapDeploy"
    /\ Len(DcCalls) = 2 /\ DcCalls[1].ok /\ ~DcCalls[2].ok

\* C20 as stated: the identifier handed to the delegate equals the requested
\* identifier, for every identifier, and dcExists probes the resolved name.
C20_Original ==
    /\ \A i \in 1..Len(delegations) :
          delegations[i].deployment_arg = args.deployment_arg
    /\ \A i \in 1..Len(DcCalls) :
          DcCalls[i].payload = SplitName(args.deployment_arg).name

\* the requested identifier ends at its first colon: "name:"
EmptyContainerPart ==
    \E i \in 1..Len(args.deployment_arg) :
        /\ args.deployment_arg[i] = ":"
        /\ \A j \in 1..(i - 1) : args.deployment_arg[j] # ":"
        /\ i = Len(args.deployment_arg)

\* C20, amended: setup splits the identifier at its first colon, and the
\* identifier handed to the delegate equals the requested one for every
\* identifier without a colon or with a non-empty part after its first colon
\* (several colons included); for an identifier with nothing after its first
\* colon the delegate gets the name alone, without the colon.  dcExists
\* probes the name part that setup resolves.
C20_IdentifierRoundTrip ==
    /\ \A i \in 1..Len(delegations) :
          /\ ~EmptyContainerPart =>
                delegations[i].deployment_arg = args.deployment_arg
          /\ EmptyContainerPart =>
                delegations[i].deployment_arg \o <<":">> = args.deployment_arg
          /\ intent.name \o
               (IF \E k \in 1..Len(args.deployment_arg) : args.deployment_arg[k] = ":"
                THEN <<":">> ELSE <<>>)
               \o intent.container = args.deployment_arg
    /\ \A i \in 1..Len(DcCalls) :
          IntentBuilt => DcCalls[i].payload = intent.name

\* a delegate was handed an identifier with several colons, unchanged, after
\* a probe of its name part
C20_Witness ==
    /\ delegations # <<>> /\ DcCalls # <<>>
    /\ args.deployment_arg = <<"a", ":", "b", ":", "c">>
    /\ delegations[1].deployment_arg = <<"a", ":", "b", ":", "c">>
    /\ DcCalls[1].payload = <<"a">>

====
